---- MODULE Spec2Model ----
(***************************************************************************)
(* Device telemetry agent of fedml/core/mlops/mlops_device_perfs.py:       *)
(* MLOpsDevicePerfStats as the supervisor (start/stop of the reporting     *)
(* process) and report_device_realtime_stats_entry as the worker process.  *)
(*                                                                         *)
(* The supervisor's methods are called by one host thread, so each call is *)
(* one step.  Every worker is its own OS process: its entry function is    *)
(* cut into one step per external call (connect, loop_start, the stats     *)
(* provider, the publish, the sleep, loop_stop, disconnect), and these     *)
(* steps interleave freely with the supervisor and with other workers.     *)
(*                                                                         *)
(* Numbers: byte counts of memory and disk are given in units of 2^20      *)
(* bytes (MiB), the CPU utilisation in thousandths of a percent, and the   *)
(* rounded fields of a record in hundredths (16.0 GB is 1600).             *)
(***************************************************************************)
EXTENDS Integers, Sequences, FiniteSets

\* Number of worker processes the supervisor may spawn in one run
\* (caps the number of start() calls).
MaxWorkers == 2

Workers == 1 .. MaxWorkers

\* Python's None for the event (not created yet).
None == "None"

\* The process handle: no process yet (Python's None), or the process of worker w.
NoProcess == <<>>
Handle(w) == <<w>>

\* An attribute of sys_args that is missing or None (getattr(..., None)), or
\* one that holds the integer v.
Absent == <<>>
Some(v) == <<v>>

\* The configurations a host process may pass to start(): edge_id and
\* client_id each absent or present.
SysArgs == [edge_id : {Absent, Some(7)}, client_id : {Absent, Some(3)}]

\* The same with an explicit edge id of 0.
WideSysArgs == [edge_id : {Absent, Some(0), Some(7)}, client_id : {Absent, Some(3)}]

----------------------------------------------------------------------------
\* report_gpu_device_info: the record built from one sample.

\* MLOpsUtils.BYTES_TO_GB is 1 / 2^30; with byte counts in units of 2^20
\* bytes a gigabyte is 1024 units.
MiBPerGB == 1024

\* Python's round() of the exact quotient n / d to an integer: the nearest
\* one, a tie going to the even neighbour.
RoundHalfEven(n, d) ==
    LET R(m) == LET q == m \div d
                    r == m % d
                IN  IF 2 * r < d THEN q
                    ELSE IF 2 * r > d THEN q + 1
                    ELSE IF q % 2 = 0 THEN q ELSE q + 1
    IN  IF n >= 0 THEN R(n) ELSE 0 - R(0 - n)

\* round(x * MLOpsUtils.BYTES_TO_GB, 2), in hundredths of a gigabyte.
BytesToGB2(mib) == RoundHalfEven(mib * 100, MiBPerGB)

\* Variant: the gigabytes are cut to two decimals instead of rounded.
artifact_info_json_truncated(e, s) ==
    [edgeId             |-> e,
     memoryTotal        |-> (s.total_mem * 100) \div MiBPerGB,
     memoryAvailable    |-> (s.free_mem * 100) \div MiBPerGB,
     diskSpaceTotal     |-> (s.total_disk_size * 100) \div MiBPerGB,
     diskSpaceAvailable |-> (s.free_disk_size * 100) \div MiBPerGB,
     cpuUtilization     |-> s.cup_utilization \div 10,
     cpuCores           |-> s.cpu_cores,
     gpuCoresTotal      |-> s.gpu_cores_total,
     gpuCoresAvailable  |-> s.gpu_cores_available,
     gpu_available_ids  |-> s.gpu_available_ids,
     networkTraffic     |-> s.sent_bytes + s.recv_bytes]

\* Variant: only the sent bytes are reported as network traffic.
artifact_info_json_sent_only(e, s) ==
    [edgeId             |-> e,
     memoryTotal        |-> BytesToGB2(s.total_mem),
     memoryAvailable    |-> BytesToGB2(s.free_mem),
     diskSpaceTotal     |-> BytesToGB2(s.total_disk_size),
     diskSpaceAvailable |-> BytesToGB2(s.free_disk_size),
     cpuUtilization     |-> RoundHalfEven(s.cup_utilization, 10),
     cpuCores           |-> s.cpu_cores,
     gpuCoresTotal      |-> s.gpu_cores_total,
     gpuCoresAvailable  |-> s.gpu_cores_available,
     gpu_available_ids  |-> s.gpu_available_ids,
     networkTraffic     |-> s.sent_bytes]

\* artifact_info_json for edge id e and sample s (updateTime, the clock of
\* MLOpsUtils.get_ntp_time, is left out).
artifact_info_json(e, s) ==
    [edgeId             |-> e,
     memoryTotal        |-> BytesToGB2(s.total_mem),
     memoryAvailable    |-> BytesToGB2(s.free_mem),
     diskSpaceTotal     |-> BytesToGB2(s.total_disk_size),
     diskSpaceAvailable |-> BytesToGB2(s.free_disk_size),
     cpuUtilization     |-> RoundHalfEven(s.cup_utilization, 10),
     cpuCores           |-> s.cpu_cores,
     gpuCoresTotal      |-> s.gpu_cores_total,
     gpuCoresAvailable  |-> s.gpu_cores_available,
     gpu_available_ids  |-> s.gpu_available_ids,
     networkTraffic     |-> s.sent_bytes + s.recv_bytes]

\* What sys_utils.get_sys_realtime_stats() may return.  The CPU values are
\* not halfway between two hundredths (there the result of round() depends
\* on the binary representation of the float).
AllSamples ==
    [total_mem           : {0, 128, 1000, 16384},
     free_mem            : {5, 8192},
     total_disk_size     : {51205, 102400},
     free_disk_size      : {51200},
     cup_utilization     : {0, 42567, 100000},
     cpu_cores           : {8},
     gpu_cores_total     : {2},
     gpu_cores_available : {1},
     sent_bytes          : {0 - 4, 0, 1000},
     recv_bytes          : {0, 2000},
     gpu_available_ids   : {<<0>>}]

\* The sample of the scenario of section 8.
ScenarioSample ==
    [total_mem |-> 16384, free_mem |-> 8192, total_disk_size |-> 102400,
     free_disk_size |-> 51200, cup_utilization |-> 42567, cpu_cores |-> 8,
     gpu_cores_total |-> 2, gpu_cores_available |-> 1, sent_bytes |-> 1000,
     recv_bytes |-> 2000, gpu_available_ids |-> <<0>>]

\* The sample the provider returns in the runs of the whole agent (the
\* builder is run on all of AllSamples in BuilderSpec).
ProviderSamples == {ScenarioSample}

----------------------------------------------------------------------------
VARIABLES
    sys_args,                       \* the host process's configuration, passed to every start()
    device_realtime_stats_event,    \* supervisor: None, or the shared Event: "clear" / "set"
    device_realtime_stats_process,  \* supervisor: None, or the handle (id) of the last spawned worker
    events_created,                 \* supervisor: number of multiprocessing.Event() objects it created
    pc,                             \* worker -> position in report_device_realtime_stats_entry
    edge_id,                        \* worker -> perf_stats.edge_id: Absent until resolved at spawn
    sys_event,                      \* worker -> the event it was handed at spawn (0 before): which creation
    session,                        \* worker -> state of its own mqtt_mgr session
    sys_stats_obj,                  \* worker -> process its SysStats object was built for
    stats_request,                  \* worker -> process targeted by its stats request in flight
    report,                         \* worker -> locals of report_gpu_device_info before the publish
    outcome,                        \* worker -> how its last finished loop iteration ended
    stopMark,                       \* worker -> stop() set the signal while it was Running (never reset)
    cancelReq,                      \* worker -> same, reset by a later start()
    stopCalls,                      \* consecutive stop() calls since the last start(), saturating at 2
    order,                          \* workers holding a sample not yet published, oldest sample first
    late,                           \* those of them whose sample is older than one already published
    survivors                       \* workers whose pending cancellation a start() withdrew after the same stop() ended another

\* Supervisor, worker and history variables.
supVars  == <<sys_args, device_realtime_stats_event, device_realtime_stats_process, events_created>>
workVars == <<pc, edge_id, sys_event, session, sys_stats_obj, stats_request, report>>
histVars == <<outcome, stopMark, cancelReq, stopCalls, order, late, survivors>>

vars == <<supVars, workVars, histVars>>

\* The variables of the program (the rest records history for the properties).
progVars == <<device_realtime_stats_event, device_realtime_stats_process, events_created, workVars>>

----------------------------------------------------------------------------
\* Worker positions and the states of section 4.2 they belong to.

Created    == {"entry"}
Connecting == {"connect", "loop_start", "sys_stats"}
Running    == {"check", "stats", "publish", "sleep"}
Draining   == {"loop_stop", "disconnect"}
Stopped    == {"done"}
Failed     == {"crashed"}

PcValues == {"unborn"} \cup Created \cup Connecting \cup Running \cup Draining
            \cup Stopped \cup Failed

SessionValues == {"none", "connected", "delivering", "stopped", "closed"}

\* A worker is alive from its spawn until its process has exited.
Alive(w) == pc[w] \notin ({"unborn"} \cup Stopped \cup Failed)

Exited(w) == pc[w] \in (Stopped \cup Failed)

SessionOpen(w) == session[w] \in {"connected", "delivering", "stopped"}

\* The worker processes of this run.
Procs == DOMAIN pc

TypeOK ==
    /\ sys_args \in WideSysArgs
    /\ edge_id \in [Procs -> {Absent, Some(0), Some(3), Some(7)}]
    /\ device_realtime_stats_event \in {None, "clear", "set"}
    /\ device_realtime_stats_process \in {NoProcess} \cup {Handle(w) : w \in Procs}
    /\ events_created \in 0 .. MaxWorkers + 1
    /\ pc \in [Procs -> PcValues]
    /\ sys_event \in [Procs -> 0 .. MaxWorkers + 1]
    /\ session \in [Procs -> SessionValues]
    /\ sys_stats_obj \in [Procs -> {"none", "parent"}]
    /\ stats_request \in [Procs -> {"none", "default", "parent"}]
    /\ \A w \in Procs :
          \/ report[w] = Absent
          \/ /\ report[w].stats \in AllSamples
             /\ report[w].artifact_info_json.edgeId \in {0, 3, 7}
    /\ outcome \in [Procs -> {"none", "stats_failed", "published", "publish_failed"}]
    /\ stopMark \in [Procs -> {"none", "inflight", "after"}]
    /\ cancelReq \in [Procs -> {"none", "inflight", "after"}]
    /\ stopCalls \in 0 .. 2
    /\ order \in Seq(Procs)
    /\ late \subseteq Procs
    /\ survivors \subseteq Procs

\* The state after MLOpsDevicePerfStats(), for a configuration of A and the
\* worker processes W that may be spawned.
InitFrom(A, W) ==
    /\ sys_args \in A
    /\ edge_id = [w \in W |-> Absent]
    /\ device_realtime_stats_event = None
    /\ device_realtime_stats_process = NoProcess
    /\ events_created = 0
    /\ pc = [w \in W |-> "unborn"]
    /\ sys_event = [w \in W |-> 0]
    /\ session = [w \in W |-> "none"]
    /\ sys_stats_obj = [w \in W |-> "none"]
    /\ stats_request = [w \in W |-> "none"]
    /\ report = [w \in W |-> Absent]
    /\ outcome = [w \in W |-> "none"]
    /\ stopMark = [w \in W |-> "none"]
    /\ cancelReq = [w \in W |-> "none"]
    /\ stopCalls = 0
    /\ order = <<>>
    /\ late = {}
    /\ survivors = {}

Init == InitFrom(SysArgs, Workers)

----------------------------------------------------------------------------
\* Supervisor

\* Variant: the worker's perf_stats is not bound to the supervisor's event
\* (its own device_realtime_stats_event stays None), so it never sees a stop.
should_stop_unbound_event ==
    None # None /\ device_realtime_stats_event = "set"

\* should_stop_device_realtime_stats: the event exists and is set.
should_stop_device_realtime_stats ==
    device_realtime_stats_event # None /\ device_realtime_stats_event = "set"

\* The mark a stop() leaves on worker w: the iteration in flight, if any, may
\* still finish ("inflight"); a worker between iterations has none ("after").
MarkAtStop(w, old) ==
    IF pc[w] \notin Running THEN old
    ELSE IF pc[w] = "check" THEN "after" ELSE "inflight"

\* Variant: stop() sets the signal without testing that it exists, creating
\* it when there is none.
stop_creating_event ==
    /\ device_realtime_stats_event' = "set"
    /\ UNCHANGED <<sys_args, device_realtime_stats_process, events_created, workVars>>
    /\ UNCHANGED <<outcome, stopMark, cancelReq, order, late, survivors>>
    /\ stopCalls' = IF stopCalls < 2 THEN stopCalls + 1 ELSE stopCalls

\* stop_device_realtime_stats: set the event if there is one.
stop_device_realtime_stats ==
    /\ device_realtime_stats_event' =
           IF device_realtime_stats_event # None THEN "set" ELSE device_realtime_stats_event
    /\ UNCHANGED <<sys_args, device_realtime_stats_process, events_created, workVars>>
    /\ UNCHANGED <<outcome, order, late, survivors>>
    /\ stopMark' = [w \in Procs |->
           IF device_realtime_stats_event = "clear" /\ stopMark[w] = "none"
           THEN MarkAtStop(w, stopMark[w]) ELSE stopMark[w]]
    /\ cancelReq' = [w \in Procs |->
           IF device_realtime_stats_event = "clear"
           THEN MarkAtStop(w, cancelReq[w]) ELSE cancelReq[w]]
    /\ stopCalls' = IF stopCalls < 2 THEN stopCalls + 1 ELSE stopCalls

\* Variant: the client id is looked at first.
ResolveClientIdFirst(a) ==
    IF a.client_id # Absent THEN a.client_id
    ELSE IF a.edge_id # Absent THEN a.edge_id
    ELSE Some(0)

\* The edge id of a new perf_stats: edge_id, else client_id, else 0.
ResolveEdgeId(a) ==
    IF a.edge_id # Absent THEN a.edge_id
    ELSE IF a.client_id # Absent THEN a.client_id
    ELSE Some(0)

\* The workers left running by a start(): their cancellation, requested by
\* the last stop(), is pending while another worker has already ended on it.
LeftRunning ==
    IF \E u \in Procs : cancelReq[u] # "none" /\ pc[u] \in Draining \cup Stopped
    THEN {v \in Procs : cancelReq[v] # "none" /\ pc[v] \in Running}
    ELSE {}

\* setup_realtime_stats_process (report_device_realtime_stats calls nothing
\* else): build the worker's perf_stats, create the event if there is none,
\* clear it, spawn a new process bound to it and record the handle.  Nothing
\* is checked about a process spawned earlier.  (device_id and run_id of
\* perf_stats only name the worker's MQTT client and are left out.)
\* The process is spawned in a slot whose position is in spawnable; with
\* track, the workers this start() leaves running are recorded.
SetupFrom(w, spawnable, track) ==
    /\ pc[w] \in spawnable
    /\ \A v \in Procs : v < w => pc[v] # "unborn"
    /\ edge_id' = [edge_id EXCEPT ![w] = ResolveEdgeId(sys_args)]
    /\ events_created' =
           IF device_realtime_stats_event = None THEN events_created + 1 ELSE events_created
    /\ device_realtime_stats_event' = "clear"
    /\ sys_event' = [sys_event EXCEPT ![w] = events_created']
    /\ device_realtime_stats_process' = Handle(w)
    /\ pc' = [pc EXCEPT ![w] = "entry"]
    /\ cancelReq' = [v \in Procs |-> "none"]
    /\ stopCalls' = 0
    /\ survivors' = IF track THEN survivors \cup LeftRunning ELSE survivors
    /\ UNCHANGED <<sys_args, session, sys_stats_obj, stats_request, report>>
    /\ UNCHANGED <<outcome, stopMark, order, late>>

\* Variant: a start() may run the entry function again in a process that
\* has returned from it.
setup_restarting_worker(w) == SetupFrom(w, {"unborn", "done"}, FALSE)

\* Every start() spawns a new process.
setup_realtime_stats_process(w) == SetupFrom(w, {"unborn"}, FALSE)

\* The same, recording the workers left running.
TrackedSetup(w) == SetupFrom(w, {"unborn"}, TRUE)

----------------------------------------------------------------------------
\* Worker: report_device_realtime_stats_entry

\* MqttManager(...) is constructed: the session object exists, not connected.
EntryConstruct(w) ==
    /\ pc[w] = "entry"
    /\ \/ pc' = [pc EXCEPT ![w] = "connect"]
       \/ pc' = [pc EXCEPT ![w] = "crashed"]     \* construction raises
    /\ UNCHANGED <<edge_id, sys_event, session, sys_stats_obj, stats_request, report>>
    /\ UNCHANGED <<supVars, histVars>>

\* mqtt_mgr.connect()
Connect(w) ==
    /\ pc[w] = "connect"
    /\ \/ /\ pc' = [pc EXCEPT ![w] = "loop_start"]
          /\ session' = [session EXCEPT ![w] = "connected"]
       \/ /\ pc' = [pc EXCEPT ![w] = "crashed"]  \* connect raises
          /\ UNCHANGED session
    /\ UNCHANGED <<edge_id, sys_event, sys_stats_obj, stats_request, report>>
    /\ UNCHANGED <<supVars, histVars>>

\* Variant: the background delivery is never started.
LoopStartSkipped(w) ==
    /\ pc[w] = "loop_start"
    /\ pc' = [pc EXCEPT ![w] = "sys_stats"]
    /\ UNCHANGED <<edge_id, sys_event, session, sys_stats_obj, stats_request, report>>
    /\ UNCHANGED <<supVars, histVars>>

\* mqtt_mgr.loop_start()
LoopStart(w) ==
    /\ pc[w] = "loop_start"
    /\ \/ /\ pc' = [pc EXCEPT ![w] = "sys_stats"]
          /\ session' = [session EXCEPT ![w] = "delivering"]
       \/ /\ pc' = [pc EXCEPT ![w] = "crashed"]  \* loop_start raises
          /\ UNCHANGED session
    /\ UNCHANGED <<edge_id, sys_event, sys_stats_obj, stats_request, report>>
    /\ UNCHANGED <<supVars, histVars>>

\* Variant: the loop is a do-while, its body runs before the first check.
SetupSysStatsThenSample(w) ==
    /\ pc[w] = "sys_stats"
    /\ \/ /\ pc' = [pc EXCEPT ![w] = "stats"]
          /\ sys_stats_obj' = [sys_stats_obj EXCEPT ![w] = "parent"]
          /\ stats_request' = [stats_request EXCEPT ![w] = "default"]
       \/ /\ pc' = [pc EXCEPT ![w] = "crashed"]
          /\ UNCHANGED <<sys_stats_obj, stats_request>>
    /\ UNCHANGED <<edge_id, sys_event, session, report>>
    /\ UNCHANGED <<supVars, histVars>>

\* parent_pid = psutil.Process(os.getpid()).ppid(); SysStats(process_id=parent_pid)
SetupSysStats(w) ==
    /\ pc[w] = "sys_stats"
    /\ \/ /\ pc' = [pc EXCEPT ![w] = "check"]
          /\ sys_stats_obj' = [sys_stats_obj EXCEPT ![w] = "parent"]
       \/ /\ pc' = [pc EXCEPT ![w] = "crashed"]  \* psutil / SysStats raises
          /\ UNCHANGED sys_stats_obj
    /\ UNCHANGED <<edge_id, sys_event, session, stats_request, report>>
    /\ UNCHANGED <<supVars, histVars>>

\* while not self.should_stop_device_realtime_stats(); when the signal is
\* not set the body starts: report_gpu_device_info(self.edge_id, mqtt_mgr)
\* calls sys_utils.get_sys_realtime_stats() without naming a process
\* (sys_stats_obj is not passed on).
CheckStop(w) ==
    /\ pc[w] = "check"
    /\ IF should_stop_device_realtime_stats
       THEN /\ pc' = [pc EXCEPT ![w] = "loop_stop"]
            /\ UNCHANGED stats_request
       ELSE /\ pc' = [pc EXCEPT ![w] = "stats"]
            /\ stats_request' = [stats_request EXCEPT ![w] = "default"]
    /\ UNCHANGED <<edge_id, sys_event, session, sys_stats_obj, report>>
    /\ UNCHANGED <<supVars, histVars>>

\* report_gpu_device_info, first part: sys_utils.get_sys_realtime_stats()
\* returns a sample of S and the record is built from it, or an exception is
\* raised, which takes the worker to onError.  With track, the order of the
\* samples held by the workers is recorded.
GetStatsFrom(w, S, onError, track) ==
    /\ pc[w] = "stats"
    /\ stats_request' = [stats_request EXCEPT ![w] = "none"]
    /\ \/ /\ \E s \in S :
                report' = [report EXCEPT ![w] =
                    [stats |-> s, artifact_info_json |-> artifact_info_json(edge_id[w][1], s)]]
          /\ pc' = [pc EXCEPT ![w] = "publish"]
          /\ order' = IF track THEN Append(order, w) ELSE order
          /\ UNCHANGED outcome
       \/ /\ pc' = [pc EXCEPT ![w] = onError]
          /\ outcome' = [outcome EXCEPT ![w] = "stats_failed"]
          /\ UNCHANGED <<report, order>>
    /\ UNCHANGED <<edge_id, sys_event, session, sys_stats_obj>>
    /\ UNCHANGED <<supVars, stopMark, cancelReq, stopCalls, late, survivors>>

\* Variant: no try/except around the call, the provider's exception ends
\* the worker.
GetStatsUncaught(w) == GetStatsFrom(w, ProviderSamples, "crashed", FALSE)

\* Variant: the except clause continues the loop, skipping the sleep.
GetStatsSkipSleep(w) == GetStatsFrom(w, ProviderSamples, "check", FALSE)

\* The exception is caught by the loop's except, the sleep follows.
GetStats(w) == GetStatsFrom(w, ProviderSamples, "sleep", FALSE)

\* The same with every sample the provider may return.
ProbeStats(w) == GetStatsFrom(w, AllSamples, "sleep", FALSE)

\* GetStats, recording the order of the samples.
TrackedGetStats(w) == GetStatsFrom(w, ProviderSamples, "sleep", TRUE)

\* The workers that hold a sample older than the one of w.
OlderThan(w) == {order[i] : i \in {j \in 1 .. Len(order) : \E k \in j + 1 .. Len(order) : order[k] = w}}

\* report_gpu_device_info, second part: json.dumps and
\* mqtt_mgr.send_message_json(topic_name, message_json), or an exception,
\* which takes the worker to onError.  With track, the samples overtaken by
\* this publish are recorded.
PublishOr(w, onError, track) ==
    /\ pc[w] = "publish"
    /\ \/ /\ pc' = [pc EXCEPT ![w] = "sleep"]
          /\ outcome' = [outcome EXCEPT ![w] = "published"]
          /\ report' = [report EXCEPT ![w] = Absent]
          /\ order' = SelectSeq(order, LAMBDA v : v # w)
          /\ late' = IF track THEN (late \cup OlderThan(w)) \ {w} ELSE late
       \/ /\ pc' = [pc EXCEPT ![w] = onError]
          /\ outcome' = [outcome EXCEPT ![w] = "publish_failed"]
          /\ IF onError = "publish"
             THEN UNCHANGED <<report, order, late>>
             ELSE /\ report' = [report EXCEPT ![w] = Absent]
                  /\ order' = SelectSeq(order, LAMBDA v : v # w)
                  /\ late' = late \ {w}
    /\ UNCHANGED <<edge_id, sys_event, session, sys_stats_obj, stats_request>>
    /\ UNCHANGED <<supVars, stopMark, cancelReq, stopCalls, survivors>>

\* Variant: a failed publish is tried again at once.
PublishRetried(w) == PublishOr(w, "publish", FALSE)

\* Variant: no try/except around the call, a failed publish ends the worker.
PublishUncaught(w) == PublishOr(w, "crashed", FALSE)

\* The exception is caught by the loop's except, the sleep follows.
Publish(w) == PublishOr(w, "sleep", FALSE)

\* Publish, recording the samples it overtakes.
TrackedPublish(w) == PublishOr(w, "sleep", TRUE)

\* time.sleep(10)
Sleep(w) ==
    /\ pc[w] = "sleep"
    /\ pc' = [pc EXCEPT ![w] = "check"]
    /\ stopMark' = [stopMark EXCEPT ![w] = IF @ = "inflight" THEN "after" ELSE @]
    /\ cancelReq' = [cancelReq EXCEPT ![w] = IF @ = "inflight" THEN "after" ELSE @]
    /\ UNCHANGED <<edge_id, sys_event, session, sys_stats_obj, stats_request, report>>
    /\ UNCHANGED <<supVars, outcome, stopCalls, order, late, survivors>>

\* mqtt_mgr.loop_stop()
LoopStop(w) ==
    /\ pc[w] = "loop_stop"
    /\ pc' = [pc EXCEPT ![w] = "disconnect"]
    /\ session' = [session EXCEPT ![w] = "stopped"]
    /\ UNCHANGED <<edge_id, sys_event, sys_stats_obj, stats_request, report>>
    /\ UNCHANGED <<supVars, histVars>>

\* mqtt_mgr.disconnect(); the entry function returns and the process exits.
Disconnect(w) ==
    /\ pc[w] = "disconnect"
    /\ pc' = [pc EXCEPT ![w] = "done"]
    /\ session' = [session EXCEPT ![w] = "closed"]
    /\ UNCHANGED <<edge_id, sys_event, sys_stats_obj, stats_request, report>>
    /\ UNCHANGED <<supVars, histVars>>

report_device_realtime_stats_entry(w) ==
    \/ EntryConstruct(w)
    \/ Connect(w)
    \/ LoopStart(w)
    \/ SetupSysStats(w)
    \/ CheckStop(w)
    \/ GetStats(w)
    \/ Publish(w)
    \/ Sleep(w)
    \/ LoopStop(w)
    \/ Disconnect(w)

----------------------------------------------------------------------------

Next ==
    \/ stop_device_realtime_stats
    \/ \E w \in Workers : setup_realtime_stats_process(w)
    \/ \E w \in Workers : report_device_realtime_stats_entry(w)

Spec == Init /\ [][Next]_vars

\* The operating system schedules every worker process: a step a worker can
\* take is eventually taken.
\* (Whether a worker shuts down does not depend on the configuration: checked
\* for the one without edge_id and client_id.)
LiveInit == Init /\ sys_args = [edge_id |-> Absent, client_id |-> Absent]

LiveSpec == LiveInit /\ [][Next]_vars /\ \A w \in Workers : WF_vars(report_device_realtime_stats_entry(w))

\* The whole agent with the order of the samples recorded, for one
\* configuration (the order does not depend on it).
OrderNext ==
    \/ stop_device_realtime_stats
    \/ \E w \in Workers : setup_realtime_stats_process(w)
    \/ \E w \in Workers :
          \/ EntryConstruct(w)
          \/ Connect(w)
          \/ LoopStart(w)
          \/ SetupSysStats(w)
          \/ CheckStop(w)
          \/ TrackedGetStats(w)
          \/ TrackedPublish(w)
          \/ Sleep(w)
          \/ LoopStop(w)
          \/ Disconnect(w)

OrderSpec == LiveInit /\ [][OrderNext]_vars

\* The record builder on every sample: one start(), and the worker's loop
\* with a provider that may return any sample of AllSamples.
BuilderNext ==
    \/ setup_realtime_stats_process(1)
    \/ \E w \in Workers :
          \/ EntryConstruct(w)
          \/ Connect(w)
          \/ LoopStart(w)
          \/ SetupSysStats(w)
          \/ CheckStop(w)
          \/ ProbeStats(w)
          \/ Publish(w)
          \/ Sleep(w)

BuilderSpec == InitFrom(WideSysArgs, Workers) /\ [][BuilderNext]_vars

\* The whole agent with one more start() than Spec allows, for one
\* configuration, recording the workers a start() leaves running.
SplitWorkers == 1 .. MaxWorkers + 1

SplitInit ==
    InitFrom({[edge_id |-> Absent, client_id |-> Absent]}, SplitWorkers)

SplitNext ==
    \/ stop_device_realtime_stats
    \/ \E w \in SplitWorkers : TrackedSetup(w)
    \/ \E w \in SplitWorkers : report_device_realtime_stats_entry(w)

SplitSpec == SplitInit /\ [][SplitNext]_vars

----------------------------------------------------------------------------
\* C1: at most one worker spawned by the supervisor is alive at any time.
AtMostOneLiveWorker == Cardinality({w \in Workers : Alive(w)}) <= 1

\* C2: a start() while a worker is alive changes nothing: no spawn, the same
\* handle, the signal not cleared.
StartWhileRunningIsNoOp ==
    [][((\E w \in Workers : setup_realtime_stats_process(w)) /\ (\E v \in Workers : Alive(v)))
          => UNCHANGED progVars]_vars

\* C3: a set signal is never cleared while a worker is alive.
SignalMonotone ==
    [][(device_realtime_stats_event = "set" /\ (\E w \in Workers : Alive(w)))
          => device_realtime_stats_event' = "set"]_vars

\* C4: once stop() has set the signal while a worker was Running and the
\* iteration then in flight is over, that worker issues no publish.
NoPublishAfterCancel ==
    \A w \in Workers : pc[w] = "publish" => stopMark[w] # "after"

\* C5: a worker that was Running when stop() set the signal, with no start()
\* since, finishes at most the sleep of the iteration in flight and eventually
\* is Stopped with its session stopped and disconnected.
ShutdownLiveness ==
    /\ [](\A w \in Workers : cancelReq[w] = "after" => pc[w] \in {"check"} \cup Draining \cup Stopped)
    /\ \A w \in Workers :
          (cancelReq[w] # "none") ~> ((pc[w] = "done" /\ session[w] = "closed") \/ cancelReq[w] = "none")

ShutdownReached ==
    \E w \in Workers : cancelReq[w] = "after" /\ pc[w] = "done" /\ session[w] = "closed"

\* C6: stop() can always be called; it changes nothing but the signal, which
\* it sets when there is one; with no signal, or with the signal already set,
\* it changes nothing at all.
StopOnlySetsSignal ==
    /\ [](ENABLED stop_device_realtime_stats)
    /\ [][stop_device_realtime_stats =>
            /\ UNCHANGED <<device_realtime_stats_process, pc, session>>
            /\ device_realtime_stats_event # None => device_realtime_stats_event' = "set"
            /\ device_realtime_stats_event \in {None, "set"} => UNCHANGED progVars]_vars

StoppedTwice ==
    /\ stopCalls = 2
    /\ device_realtime_stats_event = "set"
    /\ \E w \in Workers : Alive(w) /\ device_realtime_stats_process = Handle(w)

\* C7: a publish is in flight only while the worker's own session is
\* connected and delivering.
PublishOnlyWhileSessionOpen ==
    \A w \in Workers : pc[w] = "publish" => session[w] = "delivering"

PublishInFlight ==
    \E w \in Workers : pc[w] = "publish" /\ session[w] = "delivering"

\* C8: a worker whose process has exited has no open session.
SessionClosedAfterExit ==
    \A w \in Workers : Exited(w) => ~SessionOpen(w)

\* C9: a stats call that raises does not end the worker and publishes
\* nothing: the worker goes straight to its sleep, then checks the signal and,
\* unless cancelled, starts the next iteration, which reaches its publish when
\* its own sample succeeds.
ProviderFailureIsolated ==
    [][\A w \in Workers :
        /\ (pc[w] = "stats" /\ pc'[w] # "stats")
              => \/ pc'[w] = "sleep" /\ outcome'[w] = "stats_failed" /\ session'[w] = session[w]
                 \/ pc'[w] = "publish" /\ outcome'[w] = outcome[w]
        /\ (outcome[w] = "stats_failed" /\ pc[w] = "sleep" /\ pc'[w] # "sleep")
              => pc'[w] = "check"
        /\ (outcome[w] = "stats_failed" /\ pc[w] = "check" /\ pc'[w] # "check")
              => pc'[w] = IF device_realtime_stats_event = "set" THEN "loop_stop" ELSE "stats"]_vars

PublishAfterProviderFailure ==
    \E w \in Workers : outcome[w] = "stats_failed" /\ pc[w] = "publish"

\* C10: a publish call, failed or not, is followed by the sleep and never by
\* a second publish call of the same iteration; after a failed one the worker
\* checks the signal and goes on as after a successful one.
PublishFailureNotRetried ==
    [][\A w \in Workers :
        /\ (pc[w] = "publish" /\ <<pc[w], outcome[w]>> # <<pc'[w], outcome'[w]>>)
              => pc'[w] = "sleep" /\ outcome'[w] \in {"published", "publish_failed"}
        /\ (outcome[w] \in {"published", "publish_failed"} /\ pc[w] = "sleep" /\ pc'[w] # "sleep")
              => pc'[w] = "check"
        /\ (outcome[w] \in {"published", "publish_failed"} /\ pc[w] = "check" /\ pc'[w] # "check")
              => pc'[w] = IF device_realtime_stats_event = "set" THEN "loop_stop" ELSE "stats"]_vars

IterationAfterPublishFailure ==
    \E w \in Workers : outcome[w] = "publish_failed" /\ pc[w] = "stats"

\* C11: a record is never published after the record of a sample taken
\* later: no worker publishes a sample that a published one has overtaken.
PublishedInSampleOrder ==
    [][\A w \in Workers :
        (pc[w] = "publish" /\ pc'[w] = "sleep" /\ outcome'[w] = "published") => w \notin late]_vars

\* C12: the edge id of a spawned worker is the configuration's edge_id when
\* there is one, else its client_id when there is one, else 0, and the
\* record the worker is about to publish carries that edge id.
ExpectedEdgeId ==
    CASE sys_args.edge_id = Some(7) -> 7
      [] sys_args.edge_id = Some(0) -> 0
      [] sys_args.edge_id = Absent /\ sys_args.client_id = Some(3) -> 3
      [] sys_args.edge_id = Absent /\ sys_args.client_id = Absent -> 0

EdgeIdFallback ==
    \A w \in Workers :
        /\ pc[w] # "unborn" => edge_id[w] = Some(ExpectedEdgeId)
        /\ pc[w] = "publish" => report[w].artifact_info_json.edgeId = ExpectedEdgeId

PublishWithClientIdAsEdgeId ==
    \E w \in Workers :
        /\ sys_args = [edge_id |-> Absent, client_id |-> Some(3)]
        /\ pc[w] = "publish"
        /\ report[w].artifact_info_json.edgeId = 3

\* C13: the networkTraffic of a built record is the sum of the sample's sent
\* and received bytes, whatever their sign.
NetworkTrafficIsSum ==
    \A w \in Workers :
        pc[w] = "publish" =>
            report[w].artifact_info_json.networkTraffic
                = report[w].stats.sent_bytes + report[w].stats.recv_bytes

NegativeTrafficBuilt ==
    \E w \in Workers :
        /\ pc[w] = "publish"
        /\ report[w].stats.sent_bytes = 0 - 4
        /\ report[w].stats.recv_bytes = 2000
        /\ report[w].artifact_info_json.networkTraffic = 1996

\* C14: each of the four byte-derived fields of a built record is the
\* sample's byte count divided by 2^30 and rounded to two decimals (h
\* hundredths for m units of 2^20 bytes: 100 m / 1024 is at most one half
\* away from h), and the sample of the scenario gives 16.0, 8.0, 100.0 and
\* 50.0 gigabytes and 42.57 percent.
NearestHundredth(m, h) ==
    LET d == 100 * m - 1024 * h
    IN  2 * d <= 1024 /\ 2 * (0 - d) <= 1024

GigabytesRounded ==
    \A w \in Workers :
        pc[w] = "publish" =>
            LET s == report[w].stats
                r == report[w].artifact_info_json
            IN  /\ NearestHundredth(s.total_mem, r.memoryTotal)
                /\ NearestHundredth(s.free_mem, r.memoryAvailable)
                /\ NearestHundredth(s.total_disk_size, r.diskSpaceTotal)
                /\ NearestHundredth(s.free_disk_size, r.diskSpaceAvailable)
                /\ s = ScenarioSample =>
                      /\ r.memoryTotal = 1600
                      /\ r.memoryAvailable = 800
                      /\ r.diskSpaceTotal = 10000
                      /\ r.diskSpaceAvailable = 5000
                      /\ r.cpuUtilization = 4257

ScenarioRecordBuilt ==
    \E w \in Workers :
        /\ pc[w] = "publish"
        /\ report[w].stats = ScenarioSample
        /\ report[w].artifact_info_json.memoryTotal = 1600
        /\ report[w].artifact_info_json.cpuUtilization = 4257


\* C19: the supervisor creates its event at most once and every worker it has
\* spawned is bound to that event; and a worker that was in its loop at a
\* stop() on which another worker has ended passes no later check with the
\* signal clear (no start()/stop() sequence cancels one live worker and
\* leaves another running).
OneSignalForAllWorkers ==
    /\ [](/\ events_created <= 1
          /\ \A w \in Procs : pc[w] # "unborn" => sys_event[w] = events_created)
    /\ [][\A v \in Procs :
            (v \in survivors /\ pc[v] = "check" /\ pc'[v] # "check") => pc'[v] = "loop_stop"]_vars

\* C15 as stated: a worker ends without having observed the cancellation
\* signal only if constructing or connecting its session failed, so it holds
\* no connected session and has published nothing.
OnlySessionFailureIsFatal ==
    \A w \in Workers : pc[w] = "crashed" => session[w] = "none" /\ outcome[w] = "none"

\* C15: a worker ends without having observed the cancellation signal only
\* if a step before its loop failed (constructing or connecting the session,
\* starting its delivery, setting up the stats provider): it fails from
\* Created or Connecting, has never been Running and has published nothing;
\* any other end is entered from a check that saw the signal set.
FatalOnlyBeforeLoop ==
    /\ [](\A w \in Workers :
            pc[w] = "crashed" => outcome[w] = "none" /\ report[w] = Absent /\ stopMark[w] = "none")
    /\ [][\A w \in Workers :
            /\ (pc'[w] = "crashed" /\ pc[w] # "crashed") => pc[w] \in Created \cup Connecting
            /\ (pc'[w] \in Draining \cup Stopped /\ pc[w] \notin Draining \cup Stopped)
                   => pc[w] = "check" /\ should_stop_device_realtime_stats]_vars

\* The stats provider could not be set up: the worker has ended with its
\* session connected and delivering.
CrashedWithSessionDelivering ==
    \E w \in Workers : pc[w] = "crashed" /\ session[w] = "delivering"

\* The place of a worker's position in the order Created, Connecting,
\* Running, Draining, Stopped of section 4.2 (a failed worker has ended).
PhaseRank(p) ==
    CASE p = "unborn"      -> 0
      [] p \in Created    -> 1
      [] p \in Connecting -> 2
      [] p \in Running    -> 3
      [] p \in Draining   -> 4
      [] p \in Stopped    -> 5
      [] p \in Failed     -> 5

\* C16: a worker's state only moves forward along Created, Connecting,
\* Running, Draining, Stopped: no step takes it back to an earlier state, its
\* session becomes connected only from the unconnected session object (one
\* connect), it starts no sample once it has observed the cancellation, and
\* nothing of a worker that has ended changes any more.
WorkerMovesForward ==
    [][\A w \in Workers :
        /\ PhaseRank(pc'[w]) >= PhaseRank(pc[w])
        /\ (session'[w] = "connected" /\ session[w] # "connected")
               => session[w] = "none" /\ pc[w] = "connect"
        /\ session[w] # "none" => session'[w] # "none"
        /\ pc[w] \in Draining \cup Stopped
               => stats_request'[w] = "none" /\ report'[w] = report[w] /\ outcome'[w] = outcome[w]
        /\ Exited(w)
               => pc'[w] = pc[w] /\ session'[w] = session[w] /\ edge_id'[w] = edge_id[w]]_vars

\* A worker has ended after a stop(), and a later start() has cleared the
\* signal and spawned another worker, which is in its loop.
StoppedWorkerBesideRunningOne ==
    \E w, v \in Workers :
        /\ pc[w] = "done"
        /\ pc[v] \in Running
        /\ device_realtime_stats_event = "clear"
        /\ device_realtime_stats_process = Handle(v)

\* C17: an iteration of the loop is one check of the signal, one attempt to
\* take a sample and one sleep, in that order, also when the sample or the
\* publish fails: a check that sees the signal clear is followed by the
\* sample attempt, the attempt (and the publish it may lead to) by the sleep,
\* the sleep by the next check, and a check is entered only from the sleep
\* or, the first time, from the provider set-up.
OneCheckSampleSleepPerIteration ==
    [][\A w \in Workers :
        pc'[w] # pc[w] =>
            /\ pc[w] = "check"   => pc'[w] \in {"stats", "loop_stop"}
            /\ pc[w] = "stats"   => pc'[w] \in {"publish", "sleep"}
            /\ pc[w] = "publish" => pc'[w] = "sleep"
            /\ pc[w] = "sleep"   => pc'[w] = "check"
            /\ pc'[w] = "check"  => pc[w] \in {"sleep", "sys_stats"}
            /\ pc'[w] = "stats"  => pc[w] = "check" /\ ~should_stop_device_realtime_stats
            /\ pc'[w] = "sleep"  => pc[w] \in {"stats", "publish"}]_vars

\* An iteration whose sample failed has slept and is back at the check.
CheckAfterFailedSample ==
    \E w \in Workers : outcome[w] = "stats_failed" /\ pc[w] = "check"

\* C18: every stats request a worker issues names the parent process of the
\* worker's process, never the default (unspecified) process.
StatsRequestTargetsParent ==
    \A w \in Workers : stats_request[w] # "none" => stats_request[w] = "parent"

\* The signal is set, by a stop() that came after the start() that spawned w
\* (no start() has followed: the handle is still the one of w) and before w
\* performed its first check: w was before its loop, or at the check with no
\* iteration behind it.
StoppedBeforeFirstCheck(w) ==
    /\ device_realtime_stats_event = "set"
    /\ device_realtime_stats_process = Handle(w)
    /\ \/ stopMark[w] = "none"
       \/ stopMark[w] = "after" /\ outcome[w] = "none"

\* The place of a session's state in its life: constructed, connect,
\* loop_start, loop_stop, disconnect.
SessionRank(x) ==
    CASE x = "none"       -> 0
      [] x = "connected"  -> 1
      [] x = "delivering" -> 2
      [] x = "stopped"    -> 3
      [] x = "closed"     -> 4

\* C20: a worker whose stop() came after its start() and before its first
\* check, with no clear since, never enters the body of its loop: it takes no
\* sample and publishes nothing; it is at the check only with its session
\* delivering, it has returned only with its session closed, and its session
\* goes through connect, loop_start, loop_stop and disconnect one step at a
\* time, never twice.
NoSampleWhenStoppedBeforeFirstCheck ==
    /\ [](\A w \in Workers : StoppedBeforeFirstCheck(w) =>
            /\ pc[w] \notin {"stats", "publish", "sleep"}
            /\ outcome[w] = "none" /\ report[w] = Absent /\ stats_request[w] = "none"
            /\ pc[w] \in {"check", "loop_stop"} => session[w] = "delivering"
            /\ pc[w] = "disconnect" => session[w] = "stopped"
            /\ pc[w] = "done" => session[w] = "closed")
    /\ [][\A w \in Workers : StoppedBeforeFirstCheck(w) =>
            /\ SessionRank(session'[w]) - SessionRank(session[w]) \in {0, 1}
            /\ pc'[w] \notin {"stats", "publish", "sleep"}]_vars

\* Such a worker has returned: no iteration, its session opened and closed.
StoppedBeforeFirstCheckAndDone ==
    \E w \in Workers :
        /\ StoppedBeforeFirstCheck(w)
        /\ stopMark[w] = "none"
        /\ pc[w] = "done"
        /\ session[w] = "closed"
        /\ outcome[w] = "none"
====
